---- MODULE Spec2Model ----
(***************************************************************************)
(* Model of the sequencer of internal/ctlog/ctlog.go: the pool, one        *)
(* sequencePool round, CreateLog/LoadLog, the hash reader over edge tiles, *)
(* and the tiled Merkle tree primitives of golang.org/x/mod/sumdb/tlog     *)
(* that the round calls.                                                   *)
(***************************************************************************)
EXTENDS Integers, Sequences, FiniteSets, TLC

\* ---------------------------------------------------------------- bounds
\* Height of a tile. The program uses 10 (ctlog.go:171); the model keeps the
\* code's arithmetic and shrinks the height so that tile boundaries are crossed
\* with a handful of leaves.
tileHeight == 1
\* Number of leaves ever handed to addLeafToPool.
MaxLeaves == 3
\* Number of pools ever created (by LoadLog and by sequencePool swaps).
MaxPools == 4
\* Clock readings are drawn from 1..MaxTime.
MaxTime == 3
\* Number of LoadLog calls after the first.
MaxReloads == 1
\* Number of failures injected in one behaviour: uploads that return an
\* error, signing errors.
MaxFaults == 1
\* Number of submitters calling addLeafToPool concurrently.
NumAdders == 2
\* Largest tree of the specification of whole rounds (ReaderSpec).
MaxTreeSize == 9

\* ------------------------------------------------------------ arithmetic
RECURSIVE Pow2(_)
Pow2(k) == IF k <= 0 THEN 1 ELSE 2 * Pow2(k - 1)

Shr(n, k) == n \div Pow2(k)
Shl(n, k) == n * Pow2(k)

tileWidth == Pow2(tileHeight)

\* bits.TrailingZeros64 for n > 0
RECURSIVE TrailingZeros(_)
TrailingZeros(n) == IF n % 2 = 1 THEN 0 ELSE 1 + TrailingZeros(n \div 2)

RECURSIVE SumShifts(_)
SumShifts(n) == IF n = 0 THEN 0 ELSE n + SumShifts(n \div 2)

\* tlog.StoredHashIndex(level, n)
StoredHashIndex(level, n) == SumShifts(Shl(n + 1, level) - 1) + level

RECURSIVE SplitLoop(_, _, _)
SplitLoop(index, n, indexN) ==
    LET Step(x) == IF x > index THEN [n |-> n, indexN |-> indexN]
                   ELSE SplitLoop(index, n + 1, x)
    IN  Step(indexN + 1 + TrailingZeros(n + 1))

\* tlog.SplitStoredHashIndex(index): the (level, n) of a stored hash
SplitStoredHashIndex(index) ==
    LET Result(r) == [level |-> index - r.indexN, n |-> Shr(r.n, index - r.indexN)]
    IN  Result(SplitLoop(index, index \div 2, StoredHashIndex(0, index \div 2)))

RECURSIVE maxpow2l(_, _)
maxpow2l(n, l) == IF Pow2(l + 1) < n THEN maxpow2l(n, l + 1) ELSE l

\* tlog.maxpow2(n): the level l of the largest power of two smaller than n
maxpow2(n) == maxpow2l(n, 0)

\* -------------------------------------------------------------- hashing
\* SHA-256 is modelled as an injective encoding: a hash is the sequence of
\* integers that spells what was hashed.
ZeroHash == <<2>>
RecordHash(data) == <<0, Len(data)>> \o data
NodeHash(l, r) == <<1>> \o l \o r

\* tlog.subTreeIndex(lo, hi, nil)
RECURSIVE subTreeIndex(_, _)
subTreeIndex(lo, hi) ==
    LET Need(level) == <<StoredHashIndex(level, Shr(lo, level))>>
                           \o subTreeIndex(lo + Pow2(level), hi)
    IN  IF lo >= hi THEN <<>> ELSE Need(maxpow2(hi - lo + 1))

RECURSIVE FoldRight(_, _, _)
FoldRight(hashes, i, h) ==
    IF i < 1 THEN h ELSE FoldRight(hashes, i - 1, NodeHash(hashes[i], h))

\* tlog.subTreeHash(0, n, hashes) with len(hashes) = numTree
subTreeHash(hashes) ==
    FoldRight(hashes, Len(hashes) - 1, hashes[Len(hashes)])

\* ---------------------------------------------------------------- tiles
Tile(L, N, W) == [H |-> tileHeight, L |-> L, N |-> N, W |-> W]
NoTile == [H |-> 0, L |-> 0, N |-> 0, W |-> 0]

\* tlog.Tile.Path: a full tile has no ".p/W" suffix
Path(t) == <<t.L, t.N, IF t.W = Pow2(t.H) THEN 0 ELSE t.W>>

\* tlog.tileForIndex(h, index): the tile holding the hash and where in it
tileForIndex(index) ==
    LET Within(L, N, level, n) ==
            [t     |-> Tile(L, N, Shl(n + 1, level)),
             start |-> Shl(n, level),
             end   |-> Shl(n + 1, level)]
        InTile(L, level, sn, N) ==
            Within(L, N, level, sn - Shr(Shl(N, tileHeight), level))
        AtLevel(L, level, sn) == InTile(L, level, sn, Shr(Shl(sn, level), tileHeight))
        Split(s) == AtLevel(s.level \div tileHeight, s.level % tileHeight, s.n)
    IN  Split(SplitStoredHashIndex(index))

\* tlog.TileForIndex(tileHeight, index)
TileForIndex(index) == tileForIndex(index).t

\* tlog.tileHash over a run of hashes of a tile
RECURSIVE tileHash(_)
tileHash(data) ==
    IF Len(data) = 1 THEN data[1]
    ELSE NodeHash(tileHash(SubSeq(data, 1, Len(data) \div 2)),
                  tileHash(SubSeq(data, Len(data) \div 2 + 1, Len(data))))

\* tlog.HashFromTile(t, data, index)
HashFromTile(t, data, index) ==
    IF t.H < 1 \/ t.L < 0 \/ t.W < 1 \/ t.W > Pow2(t.H) \/ Len(data) < t.W
    THEN [err |-> TRUE, h |-> ZeroHash]
    ELSE LET In(r) ==
                 IF t.L # r.t.L \/ t.N # r.t.N \/ t.W < r.t.W
                 THEN [err |-> TRUE, h |-> ZeroHash]
                 ELSE [err |-> FALSE, h |-> tileHash(SubSeq(data, r.start + 1, r.end))]
         IN  In(tileForIndex(index))

\* ------------------------------------------------------------ leaf codec
\* cryptobyte.Builder.AddUint64 / AddUint24 / AddUint16: the low nbytes bytes
\* of x, big-endian (higher bytes are cut off, as the fixed width does)
RECURSIVE BigEndian(_, _)
BigEndian(x, nbytes) ==
    IF nbytes = 0 THEN <<>> ELSE BigEndian(x \div 256, nbytes - 1) \o <<x % 256>>

U64(x) == BigEndian(x, 8)
U24LengthPrefixed(b) == BigEndian(Len(b), 3) \o b
U16LengthPrefixed(b) == BigEndian(Len(b), 2) \o b

\* Length of logEntry.issuerKeyHash ([32]byte)
KeyHashLen == 32

X509Entry ==
    [cert |-> <<10>>, isPrecert |-> FALSE, issuerKeyHash |-> [i \in 1..KeyHashLen |-> 0],
     preCertificate |-> <<>>, precertSigningCert |-> <<>>]
PrecertEntry ==
    [cert |-> <<11>>, isPrecert |-> TRUE, issuerKeyHash |-> [i \in 1..KeyHashLen |-> 7],
     preCertificate |-> <<12>>, precertSigningCert |-> <<>>]
\* The leaves submitters hand to addLeafToPool.
Entries == {X509Entry, PrecertEntry}

\* logEntry.timestampedEntry
timestampedEntry(e, timestamp) ==
    U64(timestamp)
        \o (IF ~e.isPrecert
            THEN <<0>> \o U24LengthPrefixed(e.cert)
            ELSE <<1>> \o e.issuerKeyHash \o U24LengthPrefixed(e.cert))
        \o U16LengthPrefixed(<<>>)

\* logEntry.merkleTreeLeaf
merkleTreeLeaf(e, timestamp) == <<0, 0>> \o timestampedEntry(e, timestamp)

\* logEntry.tileLeaf
tileLeaf(e, timestamp) ==
    timestampedEntry(e, timestamp)
        \o (IF e.isPrecert
            THEN U24LengthPrefixed(e.preCertificate)
                     \o U24LengthPrefixed(e.precertSigningCert)
            ELSE <<>>)

RECURSIVE FromBigEndian(_)
FromBigEndian(b) ==
    IF Len(b) = 0 THEN 0
    ELSE 256 * FromBigEndian(SubSeq(b, 1, Len(b) - 1)) + b[Len(b)]

Drop(b, k) == SubSeq(b, k + 1, Len(b))

\* cryptobyte.String.ReadUintNLengthPrefixed: [ok, v, rest]
ReadLengthPrefixed(s, nbytes) ==
    LET Body(n) ==
            IF Len(s) < nbytes + n THEN [ok |-> FALSE, v |-> <<>>, rest |-> s]
            ELSE [ok |-> TRUE, v |-> SubSeq(s, nbytes + 1, nbytes + n),
                  rest |-> Drop(s, nbytes + n)]
    IN  IF Len(s) < nbytes THEN [ok |-> FALSE, v |-> <<>>, rest |-> s]
        ELSE Body(FromBigEndian(SubSeq(s, 1, nbytes)))

ReadFail(res) ==
    [res |-> res, timestampedEntry |-> <<>>, cert |-> <<>>, timestamp |-> 0,
     rest |-> <<>>]

\* ReadTileLeaf(tile): res is "ok", "err" or "panic"
ReadTileLeaf(tile) ==
    LET Extensions(c, x) ==
            IF ~x.ok THEN ReadFail("err")
            ELSE [res |-> "ok",
                  timestampedEntry |-> SubSeq(tile, 1, Len(tile) - Len(x.rest)),
                  cert |-> c.v,
                  timestamp |-> FromBigEndian(SubSeq(tile, 1, 8)),
                  rest |-> x.rest]
        Cert(c) == IF ~c.ok THEN ReadFail("err")
                   ELSE Extensions(c, ReadLengthPrefixed(c.rest, 2))
        Entry(entryType) ==
            IF entryType = 1 THEN ReadFail("panic")
            ELSE IF entryType # 0 THEN ReadFail("err")
            ELSE Cert(ReadLengthPrefixed(Drop(tile, 9), 3))
    IN  IF Len(tile) < 9 THEN ReadFail("err") ELSE Entry(tile[9])

\* ----------------------------------------------------------- hash reader
\* Log.edgeTiles is a map from level to [t: tile, B: bytes]; a missing key
\* reads as Go's zero value.
EdgeAt(edge, L) == IF L \in DOMAIN edge THEN edge[L] ELSE [t |-> NoTile, B |-> <<>>]

\* Mutation of ReadOneHash: a reader without the overlay of new hashes.
ReadOneHashFromTiles(edge, overlay, id) ==
    HashFromTile(EdgeAt(edge, TileForIndex(id).L).t, EdgeAt(edge, TileForIndex(id).L).B, id)

\* One index of Log.hashReader(overlay)
ReadOneHash(edge, overlay, id) ==
    LET FromTile(e) == HashFromTile(e.t, e.B, id)
    IN  IF id \in DOMAIN overlay THEN [err |-> FALSE, h |-> overlay[id]]
        ELSE FromTile(EdgeAt(edge, TileForIndex(id).L))

\* Log.hashReader(overlay)(indexes): [err, list]
hashReader(edge, overlay, indexes) ==
    LET List(rs) ==
            IF \E i \in 1..Len(indexes) : rs[i].err
            THEN [err |-> TRUE, list |-> <<>>]
            ELSE [err |-> FALSE, list |-> [i \in 1..Len(indexes) |-> rs[i].h]]
    IN  List([i \in 1..Len(indexes) |-> ReadOneHash(edge, overlay, indexes[i])])

\* Mutation of BuildHashes: the operands of NodeHash are swapped.
RECURSIVE BuildHashesSwapped(_, _, _, _)
BuildHashesSwapped(old, m, i, acc) ==
    IF i >= m THEN acc
    ELSE BuildHashesSwapped(old, m, i + 1,
                            Append(acc, NodeHash(acc[Len(acc)], old[m - i])))

\* tlog.StoredHashes: the loop that climbs from the record hash
RECURSIVE BuildHashes(_, _, _, _)
BuildHashes(old, m, i, acc) ==
    IF i >= m THEN acc
    ELSE BuildHashes(old, m, i + 1,
                     Append(acc, NodeHash(old[m - i], acc[Len(acc)])))

\* tlog.StoredHashes(n, data, r): the hashes to store for record n
StoredHashes(n, data, edge, overlay) ==
    LET Build(m, old) ==
            IF old.err THEN [err |-> TRUE, hashes |-> <<>>]
            ELSE [err |-> FALSE,
                  hashes |-> BuildHashes(old.list, m, 0, <<RecordHash(data)>>)]
        Fetch(m) ==
            Build(m, hashReader(edge, overlay,
                                [j \in 1..m |-> StoredHashIndex(m - j, Shr(n, m - j) - 1)]))
    IN  Fetch(TrailingZeros(n + 1))

\* tlog.TreeHash(n, r)
TreeHash(n, edge, overlay) ==
    LET Root(r) == IF r.err THEN [err |-> TRUE, h |-> ZeroHash]
                   ELSE [err |-> FALSE, h |-> subTreeHash(r.list)]
    IN  IF n = 0 THEN [err |-> FALSE, h |-> ZeroHash]
        ELSE Root(hashReader(edge, overlay, subTreeIndex(0, n)))

\* tlog.NewTiles(tileHeight, oldTreeSize, newTreeSize)
RECURSIVE NewTilesFrom(_, _, _)
NewTilesFrom(oldTreeSize, newTreeSize, level) ==
    LET Level(newN, lo, hi) ==
            IF newN <= 0 THEN <<>>
            ELSE [i \in 1..(IF hi > lo THEN hi - lo ELSE 0) |->
                      Tile(level, lo + i - 1, tileWidth)]
                 \o (IF Shl(hi, tileHeight) < newN
                     THEN <<Tile(level, hi, newN - Shl(hi, tileHeight))>>
                     ELSE <<>>)
                 \o NewTilesFrom(oldTreeSize, newTreeSize, level + 1)
    IN  Level(Shr(newTreeSize, tileHeight * level),
              Shr(Shr(oldTreeSize, tileHeight * level), tileHeight),
              Shr(Shr(newTreeSize, tileHeight * level), tileHeight))

NewTiles(oldTreeSize, newTreeSize) == NewTilesFrom(oldTreeSize, newTreeSize, 0)

\* tlog.ReadTileData(t, r): [err, data]
ReadTileData(t, edge, overlay) ==
    LET Data(r) == [err |-> r.err, data |-> r.list]
    IN  Data(hashReader(edge, overlay,
                        [i \in 1..t.W |->
                            StoredHashIndex(t.H * t.L, Shl(t.N, t.H) + i - 1)]))

\* Mutation of IsNewerTile: a level keeps the first tile it was given.
IsNewerTileIfAbsent(edge, tile) == tile.L \notin DOMAIN edge

\* ------------------------------------------- one round's local computation
\* The rule that keeps the right-most, widest tile of a level (LoadLog's
\* SaveTiles callback and sequencePool use the same test).
IsNewerTile(edge, tile) ==
    \/ tile.L \notin DOMAIN edge
    \/ edge[tile.L].t.N < tile.N
    \/ (edge[tile.L].t.N = tile.N /\ edge[tile.L].t.W < tile.W)

SetEdge(edge, L, tile, data) ==
    [k \in (DOMAIN edge) \cup {L} |-> IF k = L THEN [t |-> tile, B |-> data] ELSE edge[k]]

\* Mutation of DataTileFor: the tile of the next leaf, not of the last one.
DataTileOfNextLeaf(n) == [TileForIndex(StoredHashIndex(0, n)) EXCEPT !.L = -1]

\* tile := tlog.TileForIndex(tileHeight, tlog.StoredHashIndex(0, n-1));
\* tile.L = -1
DataTileFor(n) == [TileForIndex(StoredHashIndex(0, n - 1)) EXCEPT !.L = -1]

Task(tile, data) == [path |-> Path(tile), data |-> data, st |-> "pending"]

\* The body of the loop over p.pendingLeaves for the leaf leaves[k]; lEdge is
\* l.edgeTiles, which the hash reader reads, st.edgeTiles is the round's clone.
RECURSIVE AppendLeaves(_, _, _, _, _)
AppendLeaves(st, lEdge, leaves, k, timestamp) ==
    LET Full(n, nh, dt, tile) ==
            [err |-> FALSE, n |-> n, newHashes |-> nh, dataTile |-> <<>>,
             edgeTiles |-> SetEdge(st.edgeTiles, -1, tile, dt),
             tasks |-> Append(st.tasks, Task(tile, dt))]
        Added(n, nh, dt) ==
            IF n % tileWidth = 0 THEN Full(n, nh, dt, DataTileFor(n))
            ELSE [err |-> FALSE, n |-> n, newHashes |-> nh, dataTile |-> dt,
                  edgeTiles |-> st.edgeTiles, tasks |-> st.tasks]
        Store(hashes, first) ==
            Added(st.n + 1,
                  [id \in (DOMAIN st.newHashes)
                              \cup {first + i - 1 : i \in 1..Len(hashes)} |->
                      IF id >= first /\ id < first + Len(hashes)
                      THEN hashes[id - first + 1]
                      ELSE st.newHashes[id]],
                  st.dataTile \o tileLeaf(leaves[k], timestamp))
        Hashed(r) ==
            IF r.err THEN [st EXCEPT !.err = TRUE]
            ELSE AppendLeaves(Store(r.hashes, StoredHashIndex(0, st.n)),
                              lEdge, leaves, k + 1, timestamp)
    IN  IF st.err \/ k > Len(leaves) THEN st
        ELSE Hashed(StoredHashes(st.n, merkleTreeLeaf(leaves[k], timestamp),
                                 lEdge, st.newHashes))

\* Mutation of PartialDataTile: a round that uploads full data tiles only.
PartialDataTileSkipped(st) == st

\* "Upload partial data tile."
PartialDataTile(st) ==
    LET Partial(tile) ==
            [st EXCEPT !.edgeTiles = SetEdge(st.edgeTiles, -1, tile, st.dataTile),
                       !.tasks = Append(st.tasks, Task(tile, st.dataTile))]
    IN  IF st.err \/ st.n % tileWidth = 0 THEN st ELSE Partial(DataTileFor(st.n))

\* The loop over tlog.NewTiles(tileHeight, l.tree.N, n)
RECURSIVE HashTiles(_, _, _, _)
HashTiles(st, lEdge, tiles, k) ==
    LET Read(tile, r) ==
            IF r.err THEN [st EXCEPT !.err = TRUE]
            ELSE HashTiles(
                     [st EXCEPT !.edgeTiles =
                                    IF IsNewerTile(st.edgeTiles, tile)
                                    THEN SetEdge(st.edgeTiles, tile.L, tile, r.data)
                                    ELSE st.edgeTiles,
                                !.tasks = Append(st.tasks, Task(tile, r.data))],
                     lEdge, tiles, k + 1)
    IN  IF st.err \/ k > Len(tiles) THEN st
        ELSE Read(tiles[k], ReadTileData(tiles[k], lEdge, st.newHashes))

\* A round that starts every data tile afresh.
StartDataTileEmpty(lEdge) == <<>>

\* if t, ok := edgeTiles[-1]; ok && t.W < tileWidth { dataTile = bytes.Clone(t.B) }
StartDataTile(lEdge) ==
    IF -1 \in DOMAIN lEdge /\ lEdge[-1].t.W < tileWidth THEN lEdge[-1].B ELSE <<>>

\* sequencePool from the clone of edgeTiles to the last g.Go: what the round
\* computes from l.tree, l.edgeTiles, the captured leaves and its timestamp.
\* err is a hash-reader error; tasks are the uploads scheduled so far.
Sequence(lTree, lEdge, leaves, timestamp) ==
    LET Tiles(st) == HashTiles(st, lEdge, NewTiles(lTree.N, st.n), 1)
        Leaves(st) == Tiles(PartialDataTile(AppendLeaves(st, lEdge, leaves, 1, timestamp)))
    IN  Leaves([err |-> FALSE, n |-> lTree.N, newHashes |-> <<>>,
                dataTile |-> StartDataTile(lEdge),
                edgeTiles |-> lEdge, tasks |-> <<>>])

\* ------------------------------------------------ LoadLog's tile reading
\* tlog.tileParent(t, k, n)
tileParent(t, k, n) ==
    LET Parent(L, N, max) ==
            IF Shl(N, t.H) + Pow2(t.H) >= max
            THEN IF Shl(N, t.H) >= max THEN NoTile
                 ELSE [H |-> t.H, L |-> L, N |-> N, W |-> max - Shl(N, t.H)]
            ELSE [H |-> t.H, L |-> L, N |-> N, W |-> Pow2(t.H)]
    IN  Parent(t.L + k, Shr(t.N, k * t.H), Shr(n, (t.L + k) * t.H))

InSeq(x, sq) == \E i \in 1..Len(sq) : sq[i] = x
IndexOf(x, sq) == CHOOSE i \in 1..Len(sq) : sq[i] = x

RECURSIVE Dedup(_, _, _)
Dedup(sq, k, acc) ==
    IF k > Len(sq) THEN acc
    ELSE Dedup(sq, k + 1, IF InSeq(sq[k], acc) THEN acc ELSE Append(acc, sq[k]))

\* "Walk up parent tiles until we find one we've requested."
RECURSIVE WalkUp(_, _, _, _)
WalkUp(tile, k, n, planned) ==
    LET Try(pt) == IF InSeq(pt, planned) THEN k
                   ELSE IF pt = NoTile THEN -1
                   ELSE WalkUp(tile, k + 1, n, planned)
    IN  Try(tileParent(tile, k, n))

\* "Walk back down recording child tiles after parents."
RECURSIVE WalkDown(_, _, _, _)
WalkDown(tile, k, n, acc) ==
    IF k < 0 THEN acc ELSE WalkDown(tile, k - 1, n, Append(acc, tileParent(tile, k, n)))

\* tileReader.ReadTiles: Backend.Fetch of every tile
ReadTiles(store, tiles) ==
    IF \E i \in 1..Len(tiles) : Path(tiles[i]) \notin DOMAIN store
    THEN [err |-> TRUE, data |-> <<>>]
    ELSE [err |-> FALSE, data |-> [i \in 1..Len(tiles) |-> store[Path(tiles[i])]]]

\* LoadLog's saveTiles callback
RECURSIVE SaveTiles(_, _, _, _)
SaveTiles(edge, tiles, data, k) ==
    IF k > Len(tiles) THEN edge
    ELSE SaveTiles(IF IsNewerTile(edge, tiles[k])
                   THEN SetEdge(edge, tiles[k].L, tiles[k], data[k])
                   ELSE edge,
                   tiles, data, k + 1)

\* tlog.TileHashReader(tree, tileReader).ReadHashes([]int64{x}): the tiles it
\* fetches, authenticates against tree.Hash and hands to SaveTiles.
\* [err, edgeTiles]
TileHashReaderReadHashes(lTree, store, x) ==
    LET n    == lTree.N
        fail == [err |-> TRUE, edgeTiles |-> <<>>]
        ParentOK(tiles, data, i, pt) ==
            /\ InSeq(pt, tiles)
            /\ ~HashFromTile(pt, data[IndexOf(pt, tiles)],
                             StoredHashIndex(pt.L * pt.H, tiles[i].N)).err
            /\ HashFromTile(pt, data[IndexOf(pt, tiles)],
                            StoredHashIndex(pt.L * pt.H, tiles[i].N)).h
                   = tileHash(data[i])
        Authenticate(stx, tiles, data, stxHash, j) ==
            IF \E i \in 1..Len(stx) : stxHash[i].err THEN fail
            ELSE IF subTreeHash([i \in 1..Len(stx) |-> stxHash[i].h]) # lTree.Hash
            THEN fail
            ELSE IF \E i \in (Len(stx) + 1)..Len(tiles) :
                        ~ParentOK(tiles, data, i, tileParent(tiles[i], 1, n))
            THEN fail
            ELSE IF HashFromTile(tiles[j], data[j], x).err THEN fail
            ELSE [err |-> FALSE, edgeTiles |-> SaveTiles(<<>>, tiles, data, 1)]
        Fetched(stx, stxTile, tiles, tile, fetched) ==
            IF fetched.err THEN fail
            ELSE Authenticate(stx, tiles, fetched.data,
                              [i \in 1..Len(stx) |->
                                  HashFromTile(stxTile[i],
                                               fetched.data[IndexOf(stxTile[i], tiles)],
                                               stx[i])],
                              IndexOf(tileParent(tile, 0, n), tiles))
        Planned(stx, stxTile, planned, tile, children) ==
            IF \E i \in 1..Len(children) : children[i].W # Pow2(tileHeight) THEN fail
            ELSE Fetched(stx, stxTile, planned \o children, tile,
                         ReadTiles(store, planned \o children))
        Walk(stx, stxTile, planned, tile, k) ==
            IF k < 0 THEN fail
            ELSE Planned(stx, stxTile, planned, tile, WalkDown(tile, k - 1, n, <<>>))
        Plan(stx, stxTile, planned, tile) ==
            Walk(stx, stxTile, planned, tile, WalkUp(tile, 0, n, planned))
        Stx(stx, stxTile) == Plan(stx, stxTile, Dedup(stxTile, 1, <<>>), tileForIndex(x).t)
        Start(stx) ==
            Stx(stx, [i \in 1..Len(stx) |-> tileParent(tileForIndex(stx[i]).t, 0, n)])
    IN  IF x >= StoredHashIndex(0, n) THEN fail ELSE Start(subTreeIndex(0, n))

\* LoadLog's loop over the records of the data tile: "ok", "err" or "panic"
RECURSIVE CheckDataTile(_, _, _, _)
CheckDataTile(b, i, end, hashTile) ==
    LET Compare(r, exp) ==
            IF exp.err \/ RecordHash(<<0, 0>> \o r.timestampedEntry) # exp.h THEN "err"
            ELSE CheckDataTile(r.rest, i + 1, end, hashTile)
        Leaf(r) ==
            IF r.res # "ok" THEN r.res
            ELSE Compare(r, HashFromTile(hashTile.t, hashTile.B, StoredHashIndex(0, i)))
    IN  IF i >= end THEN "ok" ELSE Leaf(ReadTileLeaf(b))

\* LoadLog after the STH was fetched, verified and parsed, for c.N > 0:
\* [res, edgeTiles]
LoadEdgeTiles(lTree, store) ==
    LET Checked(edge, chk) ==
            [res |-> chk, edgeTiles |-> IF chk = "ok" THEN edge ELSE <<>>]
        Data(dataTile, edge) ==
            Checked(edge,
                    CheckDataTile(edge[-1].B, tileWidth * dataTile.N,
                                  tileWidth * dataTile.N + dataTile.W, edge[0]))
        Tiles(edge, dataTile) ==
            IF Path(dataTile) \notin DOMAIN store
            THEN [res |-> "err", edgeTiles |-> <<>>]
            ELSE Data(dataTile, SetEdge(edge, -1, dataTile, store[Path(dataTile)]))
        Read(r) ==
            IF r.err THEN [res |-> "err", edgeTiles |-> <<>>]
            ELSE Tiles(r.edgeTiles, [r.edgeTiles[0].t EXCEPT !.L = -1])
    IN  Read(TileHashReaderReadHashes(lTree, store, StoredHashIndex(0, lTree.N - 1)))

\* ================================================================ state
VARIABLES
    backendSth,    \* the object "sth" of the backend: NoSth or [N, Hash, Time]
    backendTiles,  \* the tile objects of the backend: path -> bytes
    logState,      \* "none": no Log in this process; "up": LoadLog returned a Log
    tree,          \* Log.tree
    edgeTiles,     \* Log.edgeTiles
    currentPool,   \* Log.currentPool, an index into pools
    pools,         \* every pool ever allocated
    poolMu,        \* Log.poolMu: 0 when free, else the appender holding it
    adders,        \* the addLeafToPool calls in progress, one per submitter
    futures,       \* the functions addLeafToPool has returned, in order
    seq,           \* the sequencePool call in progress
    ret,           \* what the last sequencePool call returned
    sths,          \* history: every checkpoint stored under "sth"
    chain,         \* history: every value Log.tree has had, with the tiles of
                   \* that tree as the backend held them then
    pre,           \* history: l.tree, l.edgeTiles, Len(sths) when the last round began
    snap,          \* history: each pool's leaves when it stopped being current
    critical,      \* history: a round of this Log failed at the upload of "sth"
    reloads,       \* number of LoadLog calls so far
    faults,        \* number of failures injected so far (uploads, signer)
    lost,          \* history: the rounds that returned an error, in order
    codec          \* the leaf codec on its own: an entry, its tile leaf, its reading

\* The state of the log and of its backend
logVars == <<backendSth, backendTiles, logState, tree, edgeTiles, currentPool, pools,
             poolMu, adders, futures, seq, ret, sths, chain, pre, snap, critical,
             reloads, faults, lost>>

vars == <<logVars, codec>>

Adders == 1..NumAdders

NoSth == [N |-> -1, Hash |-> ZeroHash, Time |-> 0]
NoTree == [N |-> 0, Hash |-> ZeroHash, Time |-> 0]
NewPool == [pendingLeaves |-> <<>>, done |-> FALSE, firstLeafIndex |-> 0, timestamp |-> 0]
IdleAdder == [pc |-> "idle", p |-> 0, n |-> 0, leaf |-> X509Entry]
NoRound == [err |-> FALSE, n |-> 0, newHashes |-> <<>>, dataTile |-> <<>>,
            edgeTiles |-> <<>>, tasks |-> <<>>]
IdleSeq == [pc |-> "idle", p |-> 0, timestamp |-> 0, st |-> NoRound, newTree |-> NoTree]
NoPre == [p |-> 0, tree |-> NoTree, edgeTiles |-> <<>>, sths |-> 0]
\* The rounds that returned an error so far, the one that returns now added
Lose == Append(lost, [p |-> seq.p, inst |-> reloads])
NoCodec == [pc |-> "idle", e |-> X509Entry, timestamp |-> 0, tile |-> <<>>,
            read |-> ReadFail("none")]

\* Backend.Upload returns nil with the object stored; when it returns an error
\* the object may or may not have been stored.
UploadOutcomes == {"ok", "failed", "failedStored"}
Stored(out) == out \in {"ok", "failedStored"}
\* The outcomes left once MaxFaults failures have been injected
Outcomes == IF faults < MaxFaults THEN UploadOutcomes ELSE {"ok"}
Fault(out) == faults' = IF out = "ok" THEN faults ELSE faults + 1

\* The paths of the tiles of a tree of size N: every hash tile, full or
\* partial, and the data tile of every level-0 tile
TilePaths(tiles) ==
    {Path(tiles[i]) : i \in 1..Len(tiles)}
        \cup {Path([tiles[i] EXCEPT !.L = -1]) : i \in {j \in 1..Len(tiles) : tiles[j].L = 0}}
CoveredPaths(N) == TilePaths(NewTiles(0, N))
\* What the backend holds at the paths of a tree of size N
PublishedTiles(store, N) == [path \in CoveredPaths(N) \cap DOMAIN store |-> store[path]]

Init ==
    /\ backendSth = NoSth
    /\ backendTiles = <<>>
    /\ logState = "none"
    /\ tree = NoTree
    /\ edgeTiles = <<>>
    /\ currentPool = 0
    /\ pools = <<>>
    /\ poolMu = 0
    /\ adders = [a \in Adders |-> IdleAdder]
    /\ futures = <<>>
    /\ seq = IdleSeq
    /\ ret = "none"
    /\ sths = <<>>
    /\ chain = <<>>
    /\ pre = NoPre
    /\ snap = <<>>
    /\ critical = FALSE
    /\ reloads = 0
    /\ faults = 0
    /\ lost = <<>>
    /\ codec = NoCodec

\* signTreeHead and the checkpoint it yields: the signed (N, Hash, Time)
signTreeHead(t) == [N |-> t.N, Hash |-> t.Hash, Time |-> t.Time]

\* CreateLog on a backend that holds no log yet
CreateLog ==
    /\ backendSth = NoSth
    /\ logState = "none"
    /\ \E now \in 1..MaxTime, out \in Outcomes :
          /\ Stored(out)
          /\ Fault(out)
          /\ backendSth' = signTreeHead([N |-> 0, Hash |-> ZeroHash, Time |-> now])
          /\ sths' = Append(sths, [sth |-> backendSth', ret |-> out])
    /\ UNCHANGED <<backendTiles, logState, tree, edgeTiles, currentPool, pools, poolMu,
                   adders, futures, seq, ret, chain, pre, snap, critical, reloads>>
    /\ UNCHANGED <<lost, codec>>

\* A LoadLog that refuses the very millisecond of the checkpoint.
ClockAfter(now, timestamp) == now > timestamp

\* if now := timeNowUnixMilli(); now < timestamp { return error }
ClockNotBefore(now, timestamp) == now >= timestamp

\* LoadLog, called when the process starts and reading the clock now: any
\* earlier Log of the process is gone, with its pool and its futures.
LoadLogAt(now) ==
    /\ backendSth # NoSth
    /\ seq.pc = "idle"
    /\ \A a \in Adders : adders[a].pc = "idle"
    /\ reloads <= MaxReloads
    /\ Len(pools) < MaxPools
    /\ reloads' = reloads + 1
    /\ LET Loaded(c, loaded) ==
               IF ClockNotBefore(now, c.Time) /\ loaded.res = "ok"
               THEN /\ logState' = "up"
                    /\ tree' = [N |-> c.N, Hash |-> c.Hash, Time |-> c.Time]
                    /\ edgeTiles' = loaded.edgeTiles
                    /\ pools' = Append(pools, NewPool)
                    /\ currentPool' = Len(pools) + 1
                    /\ snap' = Append([k \in 1..Len(pools) |-> pools[k].pendingLeaves],
                                      <<>>)
                    /\ chain' = Append(chain, [tree |-> tree', pool |-> 0,
                                               inst |-> reloads',
                                               tiles |-> PublishedTiles(backendTiles, c.N)])
               ELSE /\ logState' = "none"
                    /\ tree' = NoTree
                    /\ edgeTiles' = <<>>
                    /\ currentPool' = 0
                    /\ snap' = [k \in 1..Len(pools) |-> pools[k].pendingLeaves]
                    /\ UNCHANGED <<pools, chain>>
       IN  Loaded(backendSth,
                  IF backendSth.N > 0 THEN LoadEdgeTiles(backendSth, backendTiles)
                  ELSE [res |-> "ok", edgeTiles |-> <<>>])
    /\ ret' = "none"
    /\ pre' = NoPre
    /\ critical' = FALSE
    /\ UNCHANGED <<backendSth, backendTiles, poolMu, adders, futures, seq, sths, faults>>
    /\ UNCHANGED <<lost, codec>>

LoadLog == \E now \in 1..MaxTime : LoadLogAt(now)

\* Mutation of CanLock: the mutex does not exclude.
CanLockAlways == TRUE

\* ------------------------------------------------------- addLeafToPool
\* sync.Mutex.Lock returns only when nobody holds the mutex.
CanLock == poolMu = 0

\* l.poolMu.Lock(); p := l.currentPool; n := len(p.pendingLeaves)
AddLeafLock(a, leaf) ==
    /\ logState = "up"
    /\ adders[a].pc = "idle"
    /\ Len(futures) + Cardinality({b \in Adders : adders[b].pc # "idle"}) < MaxLeaves
    /\ CanLock
    /\ poolMu' = a
    /\ adders' = [adders EXCEPT ![a] =
                      [pc |-> "locked", p |-> currentPool,
                       n |-> Len(pools[currentPool].pendingLeaves), leaf |-> leaf]]
    /\ UNCHANGED <<backendSth, backendTiles, logState, tree, edgeTiles, currentPool,
                   pools, futures, seq, ret, sths, chain, pre, snap, critical, reloads, faults>>
    /\ UNCHANGED <<lost, codec>>

\* p.pendingLeaves = append(p.pendingLeaves, leaf); return the future; Unlock
AddLeafAppend(a) ==
    /\ adders[a].pc = "locked"
    /\ pools' = [pools EXCEPT ![adders[a].p].pendingLeaves = Append(@, adders[a].leaf)]
    /\ futures' = Append(futures, [p |-> adders[a].p, n |-> adders[a].n,
                                   leaf |-> adders[a].leaf])
    /\ poolMu' = IF poolMu = a THEN 0 ELSE poolMu
    /\ adders' = [adders EXCEPT ![a] = IdleAdder]
    /\ UNCHANGED <<backendSth, backendTiles, logState, tree, edgeTiles, currentPool,
                   seq, ret, sths, chain, pre, snap, critical, reloads, faults>>
    /\ UNCHANGED <<lost, codec>>

\* What a returned future yields once p.done is closed
FutureIndex(f) == pools[f.p].firstLeafIndex + f.n

\* --------------------------------------------------------- sequencePool
\* A sequencer that takes up again the pool of the round that just failed.
CapturedPoolRetried ==
    IF ret \in {"time", "hash", "upload", "sign", "sth"} THEN pre.p ELSE currentPool

\* p := l.currentPool
CapturedPool == currentPool

\* Lock; p := l.currentPool; l.currentPool = &pool{...}; Unlock
SeqSwap ==
    /\ logState = "up"
    /\ seq.pc = "idle"
    /\ Len(pools) < MaxPools
    /\ CanLock
    /\ seq' = [IdleSeq EXCEPT !.pc = "time", !.p = CapturedPool]
    /\ pools' = Append(pools, NewPool)
    /\ currentPool' = Len(pools) + 1
    /\ snap' = Append([snap EXCEPT ![currentPool] = pools[currentPool].pendingLeaves],
                      <<>>)
    /\ pre' = [p |-> CapturedPool, tree |-> tree, edgeTiles |-> edgeTiles,
               sths |-> Len(sths)]
    /\ ret' = "running"
    /\ UNCHANGED <<backendSth, backendTiles, logState, tree, edgeTiles, poolMu, adders,
                   futures, sths, chain, critical, reloads, faults>>
    /\ UNCHANGED <<lost, codec>>

\* if timestamp <= l.tree.Time { return error }
TimeProgressed(timestamp, lTree) == timestamp > lTree.Time

\* Mutation of EdgeTilesWhileSequencing: the round edits l.edgeTiles itself.
EdgeTilesNotCloned(lEdge, st) == st.edgeTiles

\* edgeTiles := maps.Clone(l.edgeTiles): the round works on its own map and
\* l.edgeTiles is what it was.
EdgeTilesWhileSequencing(lEdge, st) == lEdge

\* Mutation of StartTree: the round numbers its leaves from 0.
StartTreeAtZero(lTree) == [lTree EXCEPT !.N = 0]

\* n := l.tree.N
StartTree(lTree) == lTree

\* timestamp := timeNowUnixMilli() up to the last g.Go
SeqTime ==
    /\ seq.pc = "time"
    /\ \E timestamp \in 1..MaxTime :
          LET Scheduled(st) ==
                  /\ seq' = [seq EXCEPT !.pc = "upload", !.timestamp = timestamp,
                                        !.st = st]
                  /\ edgeTiles' = EdgeTilesWhileSequencing(edgeTiles, st)
                  /\ UNCHANGED <<ret, lost>>
          IN  IF ~TimeProgressed(timestamp, tree)
              THEN /\ seq' = IdleSeq
                   /\ ret' = "time"
                   /\ lost' = Lose
                   /\ UNCHANGED edgeTiles
              ELSE Scheduled(Sequence(StartTree(tree), edgeTiles,
                                      pools[seq.p].pendingLeaves, timestamp))
    /\ UNCHANGED <<backendSth, backendTiles, logState, tree, currentPool, pools, poolMu,
                   adders, futures, sths, chain, pre, snap, critical, reloads, faults>>
    /\ UNCHANGED codec

PutTile(store, path, data) ==
    [q \in (DOMAIN store) \cup {path} |-> IF q = path THEN data ELSE store[q]]

\* One upload of the task group returns: l.backend.Upload(gctx, tile.Path(), data).
\* The uploads of a round write distinct paths and nothing reads the backend
\* during a round, so they are taken in the order they were scheduled.
UploadTile(i) ==
    /\ seq.pc = "upload"
    /\ i \in 1..Len(seq.st.tasks)
    /\ seq.st.tasks[i].st = "pending"
    /\ \A j \in 1..(i - 1) : seq.st.tasks[j].st # "pending"
    /\ \E out \in Outcomes :
          /\ Fault(out)
          /\ backendTiles' = IF Stored(out)
                             THEN PutTile(backendTiles, seq.st.tasks[i].path,
                                          seq.st.tasks[i].data)
                             ELSE backendTiles
          /\ seq' = [seq EXCEPT !.st.tasks[i].st = IF out = "ok" THEN "ok" ELSE "failed"]
    /\ UNCHANGED <<backendSth, logState, tree, edgeTiles, currentPool, pools, poolMu,
                   adders, futures, ret, sths, chain, pre, snap, critical, reloads>>
    /\ UNCHANGED <<lost, codec>>

\* A round that does not look at the error of g.Wait().
GroupErrorIgnored(tasks) == FALSE

\* if err := g.Wait(); err != nil: some upload of the group returned an error
GroupError(tasks) == \E i \in 1..Len(tasks) : tasks[i].st = "failed"

\* A round that returns without waiting for its task group.
GroupNotWaited(tasks) == TRUE

\* defer g.Wait() and g.Wait(): the call blocks until every function passed to
\* g.Go has returned
GroupWaited(tasks) == \A i \in 1..Len(tasks) : tasks[i].st # "pending"

\* g.Wait() returns (inline, or deferred after a hash-reader error), then
\* rootHash, err := tlog.TreeHash(n, hashReader)
SeqWait ==
    /\ seq.pc = "upload"
    /\ GroupWaited(seq.st.tasks)
    /\ LET Root(root) ==
               IF root.err
               THEN seq' = IdleSeq /\ ret' = "hash" /\ lost' = Lose
               ELSE /\ seq' = [seq EXCEPT !.pc = "sign",
                                          !.newTree = [N |-> seq.st.n, Hash |-> root.h,
                                                       Time |-> seq.timestamp]]
                    /\ UNCHANGED <<ret, lost>>
       IN  IF seq.st.err
           THEN seq' = IdleSeq /\ ret' = "hash" /\ lost' = Lose
           ELSE IF GroupError(seq.st.tasks)
           THEN seq' = IdleSeq /\ ret' = "upload" /\ lost' = Lose
           ELSE Root(TreeHash(seq.st.n, edgeTiles, seq.st.newHashes))
    /\ UNCHANGED <<backendSth, backendTiles, logState, tree, edgeTiles, currentPool,
                   pools, poolMu, adders, futures, sths, chain, pre, snap, critical,
                   reloads, faults>>
    /\ UNCHANGED codec

\* checkpoint, err := signTreeHead(...): the signer may fail
SeqSign ==
    /\ seq.pc = "sign"
    /\ \E signed \in {TRUE} \cup {faults >= MaxFaults} :
          /\ faults' = IF signed THEN faults ELSE faults + 1
          /\ IF signed THEN seq' = [seq EXCEPT !.pc = "sth"] /\ UNCHANGED <<ret, lost>>
             ELSE seq' = IdleSeq /\ ret' = "sign" /\ lost' = Lose
    /\ UNCHANGED <<backendSth, backendTiles, logState, tree, edgeTiles, currentPool,
                   pools, poolMu, adders, futures, sths, chain, pre, snap, critical,
                   reloads>>
    /\ UNCHANGED codec

\* Mutation of UploadReturnedNil: the error of the upload is not looked at.
UploadErrorIgnored(out) == TRUE

\* if err := l.backend.Upload(ctx, "sth", checkpoint); err != nil { return err }
UploadReturnedNil(out) == out = "ok"

SeqUploadSTH ==
    /\ seq.pc = "sth"
    /\ \E out \in Outcomes :
          /\ Fault(out)
          /\ backendSth' = IF Stored(out) THEN signTreeHead(seq.newTree) ELSE backendSth
          /\ sths' = IF Stored(out)
                     THEN Append(sths, [sth |-> backendSth', ret |-> out])
                     ELSE sths
          /\ IF UploadReturnedNil(out)
             THEN seq' = [seq EXCEPT !.pc = "commit"] /\ UNCHANGED <<ret, critical, lost>>
             ELSE /\ seq' = IdleSeq /\ ret' = "sth" /\ critical' = TRUE
                  /\ lost' = Lose
    /\ UNCHANGED <<backendTiles, logState, tree, edgeTiles, currentPool, pools, poolMu,
                   adders, futures, chain, pre, snap, reloads>>
    /\ UNCHANGED codec

\* Mutation of FirstLeafIndex: the size of the new tree is taken.
FirstLeafIndexOfNewTree(lTree, newTree) == newTree.N

\* p.firstLeafIndex = l.tree.N
FirstLeafIndex(lTree, newTree) == lTree.N

\* p.timestamp = timestamp; p.firstLeafIndex = l.tree.N; l.tree = tree;
\* l.edgeTiles = edgeTiles; return nil, the deferred close(p.done) runs
SeqCommit ==
    /\ seq.pc = "commit"
    /\ pools' = [pools EXCEPT ![seq.p] =
                     [@ EXCEPT !.timestamp = seq.timestamp,
                               !.firstLeafIndex = FirstLeafIndex(tree, seq.newTree),
                               !.done = TRUE]]
    /\ tree' = seq.newTree
    /\ edgeTiles' = seq.st.edgeTiles
    /\ chain' = Append(chain, [tree |-> seq.newTree, pool |-> seq.p, inst |-> reloads,
                               tiles |-> PublishedTiles(backendTiles, seq.newTree.N)])
    /\ seq' = IdleSeq
    /\ ret' = "ok"
    /\ UNCHANGED <<backendSth, backendTiles, logState, currentPool, poolMu, adders,
                   futures, sths, pre, snap, critical, reloads, faults>>
    /\ UNCHANGED <<lost, codec>>

Next ==
    \/ CreateLog
    \/ LoadLog
    \/ \E a \in Adders, leaf \in Entries : AddLeafLock(a, leaf)
    \/ \E a \in Adders : AddLeafAppend(a)
    \/ SeqSwap
    \/ SeqTime
    \/ \E i \in 1..MaxLeaves * 4 : UploadTile(i)
    \/ SeqWait
    \/ SeqSign
    \/ SeqUploadSTH
    \/ SeqCommit

Spec == Init /\ [][Next]_vars

\* ------------------------------------------------- the leaf codec alone
\* tileLeaf and ReadTileLeaf are pure: they are run on entries and timestamps
\* drawn from small sets, the log staying as it is.
CertBytes == {0, 255}
Certs == {<<>>} \cup {<<x>> : x \in CertBytes} \cup {<<x, y>> : x, y \in CertBytes}
ExtraData == {<<>>, <<9>>}
CodecEntries ==
    {[X509Entry EXCEPT !.cert = c] : c \in Certs}
        \cup {[PrecertEntry EXCEPT !.cert = c, !.preCertificate = pc,
                                   !.precertSigningCert = sc] :
                  c \in Certs, pc \in ExtraData, sc \in ExtraData}
\* Timestamps of one, two and three significant bytes
CodecTimes == {0, MaxTime, 256 * MaxTime + 1, 65536 * MaxTime + 256}

\* e.tileLeaf(timestamp)
Encode(e, timestamp) ==
    /\ codec' = [pc |-> "encoded", e |-> e, timestamp |-> timestamp,
                 tile |-> tileLeaf(e, timestamp), read |-> ReadFail("none")]
    /\ UNCHANGED logVars

\* ReadTileLeaf(tile) on the bytes tileLeaf returned
Decode ==
    /\ codec.pc = "encoded"
    /\ codec' = [codec EXCEPT !.pc = "decoded", !.read = ReadTileLeaf(codec.tile)]
    /\ UNCHANGED logVars

CodecNext ==
    \/ \E e \in CodecEntries, timestamp \in CodecTimes : Encode(e, timestamp)
    \/ Decode

CodecSpec == Init /\ [][CodecNext]_vars

\* ------------------------------------------------------- whole rounds
\* sequencePool taken as one step on larger trees: a pool of k distinct
\* entries, every upload and the signer succeeding. With CreateLog and LoadLog
\* it visits every tree size up to MaxTreeSize, reached by rounds of every
\* size, on edge tiles left by rounds and on edge tiles read back by LoadLog.
ReaderLeaves(k) == [i \in 1..k |-> [X509Entry EXCEPT !.cert = <<i>>]]

RECURSIVE PutTiles(_, _, _)
PutTiles(store, tasks, i) ==
    IF i > Len(tasks) THEN store
    ELSE PutTiles(PutTile(store, tasks[i].path, tasks[i].data), tasks, i + 1)

SequenceAll(k) ==
    /\ logState = "up"
    /\ seq.pc = "idle"
    /\ tree.N + k <= MaxTreeSize
    /\ \E timestamp \in 1..MaxTime :
          LET Failed(err, tasks) ==
                  /\ ret' = err
                  /\ backendTiles' = PutTiles(backendTiles, tasks, 1)
                  /\ UNCHANGED <<tree, edgeTiles, backendSth, sths, chain>>
              Committed(st, newTree) ==
                  /\ ret' = "ok"
                  /\ backendTiles' = PutTiles(backendTiles, st.tasks, 1)
                  /\ backendSth' = signTreeHead(newTree)
                  /\ sths' = Append(sths, [sth |-> backendSth', ret |-> "ok"])
                  /\ tree' = newTree
                  /\ edgeTiles' = st.edgeTiles
                  /\ chain' = Append(chain, [tree |-> newTree, pool |-> currentPool,
                                             inst |-> reloads,
                                             tiles |-> PublishedTiles(backendTiles',
                                                                      newTree.N)])
              Rooted(st, root) ==
                  IF root.err THEN Failed("hash", st.tasks)
                  ELSE Committed(st, [N |-> st.n, Hash |-> root.h, Time |-> timestamp])
              Scheduled(st) ==
                  IF st.err THEN Failed("hash", st.tasks)
                  ELSE Rooted(st, TreeHash(st.n, edgeTiles, st.newHashes))
          IN  IF ~TimeProgressed(timestamp, tree) THEN Failed("time", <<>>)
              ELSE Scheduled(Sequence(StartTree(tree), edgeTiles, ReaderLeaves(k),
                                      timestamp))
    /\ pre' = [p |-> 0, tree |-> tree, edgeTiles |-> edgeTiles, sths |-> Len(sths)]
    /\ UNCHANGED <<logState, currentPool, pools, poolMu, adders, futures, seq,
                   snap, critical, reloads, faults>>
    /\ UNCHANGED <<lost, codec>>

ReaderNext ==
    \/ CreateLog
    \/ LoadLog
    \/ \E k \in 0..MaxTreeSize : SequenceAll(k)

ReaderSpec == Init /\ [][ReaderNext]_vars

\* =========================================================== properties
\* The entries of sths that sequencePool uploaded (CreateLog's is the first)
RoundSths == {i \in 1..Len(sths) : i > 1}

\* The entries of chain that a round committed (the others were loaded)
Commits == {k \in 1..Len(chain) : chain[k].pool # 0}

\* The futures whose pool has been committed: calling them returns
Resolved == {i \in 1..Len(futures) : pools[futures[i].p].done}

\* The returns of sequencePool that carry an error
ErrorReturns == {"time", "hash", "upload", "sign", "sth"}

\* Length of the hash encoded in s from position pos on
RECURSIVE EncLen(_, _)
EncLen(s, pos) ==
    IF s[pos] = 0 THEN 2 + s[pos + 1]
    ELSE IF s[pos] = 1
    THEN 1 + EncLen(s, pos + 1) + EncLen(s, pos + 1 + EncLen(s, pos + 1))
    ELSE 1

\* The hash of leaf i under the root of a tree of n leaves encoded in s at pos
RECURSIVE LeafAt(_, _, _, _)
LeafAt(s, pos, n, i) ==
    IF n = 1 THEN SubSeq(s, pos, pos + EncLen(s, pos) - 1)
    ELSE IF i < Pow2(maxpow2(n))
    THEN LeafAt(s, pos + 1, Pow2(maxpow2(n)), i)
    ELSE LeafAt(s, pos + 1 + EncLen(s, pos + 1), n - Pow2(maxpow2(n)),
                i - Pow2(maxpow2(n)))

\* The Merkle tree leaf hash that future f was given
FutureLeafHash(f) == RecordHash(merkleTreeLeaf(f.leaf, pools[f.p].timestamp))

\* C1 (as claimed): sequencePool never stores under "sth" two checkpoints of
\* the same tree size with different roots, whichever rounds fail.
C1_NoForkOfRoots ==
    \A i \in RoundSths, j \in RoundSths :
        sths[i].sth.N = sths[j].sth.N => sths[i].sth.Hash = sths[j].sth.Hash

\* C2 (as claimed): each checkpoint sequencePool stores under "sth" has a
\* timestamp strictly greater than the checkpoint stored there before it.
C2_TimeStrictlyIncreases ==
    \A i \in RoundSths : sths[i].sth.Time > sths[i - 1].sth.Time

\* What holds of the rounds that return nil: the tree a round commits has a
\* Time strictly greater than the tree it replaces and is a checkpoint whose
\* upload returned nil, and a round that goes on to hash, upload or sign has
\* read a clock strictly greater than l.tree.Time.
CommittedTimeIncreases ==
    /\ \A k \in Commits :
           /\ k > 1
           /\ chain[k].inst = chain[k - 1].inst
           /\ chain[k].tree.Time > chain[k - 1].tree.Time
           /\ \E i \in RoundSths :
                  sths[i] = [sth |-> signTreeHead(chain[k].tree), ret |-> "ok"]
    /\ seq.pc \in {"upload", "sign", "sth", "commit"} => seq.timestamp > tree.Time

\* C3 (as claimed): each checkpoint sequencePool stores under "sth" has a
\* size at least that of the checkpoint stored there before it.
C3_SizeNeverDecreases ==
    \A i \in RoundSths : sths[i].sth.N >= sths[i - 1].sth.N

\* What holds of the rounds that return nil: the tree a round commits has the
\* size of the tree it replaces plus the number of leaves of the round's pool.
CommittedSizeGrowsByPool ==
    \A k \in Commits :
        /\ k > 1
        /\ chain[k].tree.N = chain[k - 1].tree.N + Len(pools[chain[k].pool].pendingLeaves)
        /\ chain[k].tree.N >= chain[k - 1].tree.N

\* C4: once a future has returned index i, the leaf at position i of every
\* tree of more than i leaves that l.tree has held is that future's leaf.
C4_AppendStability ==
    \A i \in Resolved : \A k \in 1..Len(chain) :
        chain[k].tree.N > FutureIndex(futures[i])
            => LeafAt(chain[k].tree.Hash, 1, chain[k].tree.N, FutureIndex(futures[i]))
                   = FutureLeafHash(futures[i])

C4_Witness ==
    \E i \in Resolved : \E k \in Commits :
        /\ (k - 1) \in Commits
        /\ chain[k - 1].tree.N > FutureIndex(futures[i])
        /\ chain[k].tree.N > chain[k - 1].tree.N

\* C5: a pool's done is closed only once an upload of "sth" for the tree that
\* holds the pool's leaves has returned success: the backend then holds a
\* checkpoint larger than every index the pool's futures return.
C5_DoneAfterSthStored ==
    /\ \A p \in 1..Len(pools) :
           pools[p].done =>
               \E j \in RoundSths :
                   /\ sths[j].ret = "ok"
                   /\ sths[j].sth.Time = pools[p].timestamp
                   /\ sths[j].sth.N = pools[p].firstLeafIndex + Len(pools[p].pendingLeaves)
    /\ \A i \in Resolved : backendSth.N > FutureIndex(futures[i])

C5_Witness == \E i \in Resolved : FutureIndex(futures[i]) > 0

\* C6: while a round has not committed, and after it has returned an error,
\* l.tree and l.edgeTiles are what they were when the round began and the
\* round's pool has done open, firstLeafIndex 0 and timestamp 0.
C6_ErrorLeavesLogUntouched ==
    (seq.pc \in {"time", "upload", "sign", "sth"} \/ ret \in ErrorReturns) =>
        /\ pre.p \in 1..Len(pools)
        /\ tree = pre.tree
        /\ edgeTiles = pre.edgeTiles
        /\ ~pools[pre.p].done
        /\ pools[pre.p].firstLeafIndex = 0
        /\ pools[pre.p].timestamp = 0

C6_Witness ==
    /\ ret = "upload"
    /\ seq.pc = "idle"
    /\ tree.N > 0
    /\ Len(pools[pre.p].pendingLeaves) > 0

\* C7: a pool that sequencePool has captured never gains a leaf, and every
\* leaf addLeafToPool accepted is in exactly one pool, where its future says.
C7_CapturedPoolIsFrozen ==
    /\ \A k \in 1..Len(pools) : k # currentPool => pools[k].pendingLeaves = snap[k]
    /\ \A i \in 1..Len(futures) :
           /\ futures[i].n + 1 \in 1..Len(pools[futures[i].p].pendingLeaves)
           /\ pools[futures[i].p].pendingLeaves[futures[i].n + 1] = futures[i].leaf
    /\ \A k \in 1..Len(pools) :
           Len(pools[k].pendingLeaves)
               = Cardinality({i \in 1..Len(futures) : futures[i].p = k})
    /\ \A i \in 1..Len(futures), j \in 1..Len(futures) :
           (futures[i].p = futures[j].p /\ futures[i].n = futures[j].n) => i = j

C7_Witness ==
    /\ seq.pc = "upload"
    /\ Len(pools[seq.p].pendingLeaves) > 0
    /\ \E i \in 1..Len(futures) : futures[i].p = currentPool
    /\ \E a \in Adders : adders[a].pc = "locked"

\* C8: futures of one pool return indices in the order their leaves were
\* added, starting at the pool's firstLeafIndex; every index of an earlier
\* committed pool is below every index of a later one; no two futures return
\* the same index.
C8_IndexOrder ==
    \A i \in Resolved, j \in Resolved :
        /\ FutureIndex(futures[i]) = pools[futures[i].p].firstLeafIndex + futures[i].n
        /\ (futures[i].p = futures[j].p /\ futures[i].n < futures[j].n)
               => FutureIndex(futures[i]) < FutureIndex(futures[j])
        /\ futures[i].p < futures[j].p => FutureIndex(futures[i]) < FutureIndex(futures[j])
        /\ i # j => FutureIndex(futures[i]) # FutureIndex(futures[j])

C8_Witness ==
    \E i \in Resolved, j \in Resolved :
        /\ futures[i].p < futures[j].p
        /\ \E h \in Resolved : h # i /\ futures[h].p = futures[i].p

\* C9 (as claimed): once an upload of "sth" has returned an error, the Log
\* schedules no upload and signs no tree head until LoadLog has run again.
C9_RefusesAfterSthFailure ==
    critical =>
        /\ ~(seq.pc = "upload" /\ Len(seq.st.tasks) > 0)
        /\ seq.pc \notin {"sth", "commit"}

\* C10: whenever a Log is up (LoadLog has returned it; rounds have committed
\* or failed since), tlog.TreeHash over l.edgeTiles alone succeeds and yields
\* l.tree.Hash; when LoadLog or a round has just returned nil, l.tree is the
\* checkpoint the backend holds under "sth".
C10_EdgeTilesGiveRoot ==
    logState = "up" =>
        /\ TreeHash(tree.N, edgeTiles, <<>>) = [err |-> FALSE, h |-> tree.Hash]
        /\ chain # <<>>
        /\ chain[Len(chain)].tree = tree
        /\ (seq.pc = "idle" /\ ret \in {"none", "ok"}) => backendSth = signTreeHead(tree)

C10_Witness ==
    /\ logState = "up"
    /\ reloads = 2
    /\ tree.N = 3
    /\ chain[Len(chain)].pool # 0

\* ------------------------------------------------ reading a data tile back
\* Position after a length-prefixed field that starts at pos
FieldEnd(b, pos, nbytes) == pos + nbytes + FromBigEndian(SubSeq(b, pos, pos + nbytes - 1))

\* Position after the TimestampedEntry that starts at pos
EntryEnd(b, pos) ==
    IF b[pos + 8] = 0 THEN FieldEnd(b, FieldEnd(b, pos + 9, 3), 2)
    ELSE FieldEnd(b, FieldEnd(b, pos + 9 + KeyHashLen, 3), 2)

\* Position after the TileLeaf that starts at pos
LeafEnd(b, pos) ==
    IF b[pos + 8] = 0 THEN EntryEnd(b, pos)
    ELSE FieldEnd(b, FieldEnd(b, EntryEnd(b, pos), 3), 3)

\* The TileLeaf records of a data tile: [entry, leaf] per record; bytes that
\* are too short to hold a record give one record with an empty entry.
RECURSIVE Records(_, _)
Records(b, pos) ==
    IF pos > Len(b) THEN <<>>
    ELSE IF pos + 10 > Len(b) THEN <<[entry |-> <<>>, leaf |-> SubSeq(b, pos, Len(b))]>>
    ELSE <<[entry |-> SubSeq(b, pos, EntryEnd(b, pos) - 1),
            leaf |-> SubSeq(b, pos, LeafEnd(b, pos) - 1)]>>
             \o Records(b, LeafEnd(b, pos))

\* Width of the tile uploaded under path
PathWidth(path) == IF path[3] = 0 THEN tileWidth ELSE path[3]

\* The uploads of data tiles among the round's tasks
DataTasks == {i \in 1..Len(seq.st.tasks) : seq.st.tasks[i].path[1] = -1}

\* Record j of the data tile of task i is the leaf of tree index t * tileWidth + j:
\* its leaf hash is the one under the round's root; a leaf of this round is
\* the pool's leaf with the round's timestamp; a leaf of an earlier round is
\* the record the partial tile l.edgeTiles[-1] held.
RecordIsLeaf(rec, index) ==
    /\ RecordHash(<<0, 0>> \o rec.entry)
           = LeafAt(seq.newTree.Hash, 1, seq.newTree.N, index)
    /\ index >= tree.N =>
           rec.leaf = tileLeaf(pools[seq.p].pendingLeaves[index - tree.N + 1], seq.timestamp)
    /\ index < tree.N =>
           /\ -1 \in DOMAIN edgeTiles
           /\ rec = Records(edgeTiles[-1].B, 1)[index - tileWidth * edgeTiles[-1].t.N + 1]
    /\ \A f \in Resolved :
           FutureIndex(futures[f]) = index =>
               rec.leaf = tileLeaf(futures[f].leaf, pools[futures[f].p].timestamp)

\* C11: every data tile (index t, width W) uploaded by a round that commits
\* holds exactly W TileLeaf records, record j being the leaf of tree index
\* t * tileWidth + j with the timestamp of the round that first sequenced it,
\* also when the tile extends a partial tile of an earlier round.
C11_TileLeafConsistency ==
    seq.pc = "commit" =>
        \A i \in DataTasks :
            /\ Len(Records(seq.st.tasks[i].data, 1)) = PathWidth(seq.st.tasks[i].path)
            /\ \A j \in 1..PathWidth(seq.st.tasks[i].path) :
                   RecordIsLeaf(Records(seq.st.tasks[i].data, 1)[j],
                                tileWidth * seq.st.tasks[i].path[2] + j - 1)

C11_Witness ==
    /\ seq.pc = "commit"
    /\ tree.N % tileWidth # 0
    /\ \E k \in 1..Len(pools[seq.p].pendingLeaves) :
           pools[seq.p].pendingLeaves[k].isPrecert
    /\ \E i \in DataTasks : PathWidth(seq.st.tasks[i].path) = tileWidth

\* What ReadTileLeaf is to return for the tile leaf of (e, timestamp)
RoundTrip(e, timestamp, read) ==
    /\ read.res = "ok"
    /\ read.timestamp = timestamp
    /\ read.cert = e.cert
    /\ read.timestampedEntry = timestampedEntry(e, timestamp)
    /\ read.rest = <<>>

\* C12 (as claimed): for every entry e, x509 or precert, and timestamp T,
\* ReadTileLeaf(e.tileLeaf(T)) returns without error or panic the timestamp T,
\* the cert of e, the TimestampedEntry encoding of (e, T) and an empty rest.
C12_RoundTrip ==
    codec.pc = "decoded" => RoundTrip(codec.e, codec.timestamp, codec.read)

\* The round trip of the x509 entries
X509RoundTrip ==
    (codec.pc = "decoded" /\ ~codec.e.isPrecert)
        => RoundTrip(codec.e, codec.timestamp, codec.read)

\* ReadTileLeaf on the tile leaf of a precert entry panics
PrecertPanics ==
    (codec.pc = "decoded" /\ codec.e.isPrecert) => codec.read.res = "panic"

\* C13: a LoadLog on a backend whose only checkpoint is the one CreateLog
\* stored, reading a clock not before that checkpoint's time, returns a Log
\* with N = 0, no edge tiles, tree.Time the time CreateLog read and a fresh
\* empty current pool.
C13_LoadAfterCreate ==
    [][\A now \in 1..MaxTime :
           (Len(sths) = 1 /\ now >= sths[1].sth.Time /\ LoadLogAt(now)) =>
               /\ logState' = "up"
               /\ tree' = [N |-> 0, Hash |-> ZeroHash, Time |-> sths[1].sth.Time]
               /\ edgeTiles' = <<>>
               /\ currentPool' = Len(pools')
               /\ pools'[currentPool'] = NewPool
               /\ ~pools'[currentPool'].done]_vars

C13_Witness ==
    /\ Len(sths) = 1
    /\ reloads = 1
    /\ logState = "up"
    /\ ret = "none"
    /\ tree.Time = sths[1].sth.Time
    /\ pools[currentPool].pendingLeaves = <<>>

\* The rounds that have returned an error
LostRounds == 1..Len(lost)

\* Leaf j of pool p is an entry no other accepted leaf equals
UniqueLeaf(p, j) ==
    \A q \in 1..Len(pools) : \A h \in 1..Len(pools[q].pendingLeaves) :
        (q # p \/ h # j) => pools[q].pendingLeaves[h] # pools[p].pendingLeaves[j]

\* The tree t has leaf among its leaves, under some timestamp
TreeHoldsLeaf(t, leaf) ==
    \E i \in 0..(t.N - 1), timestamp \in 1..MaxTime :
        LeafAt(t.Hash, 1, t.N, i) = RecordHash(merkleTreeLeaf(leaf, timestamp))

\* The round that committed chain[k] gave its own pool the indices from the
\* unchanged l.tree.N on, and put its own leaves there
CommitAddsOwnPool(k) ==
    /\ pools[chain[k].pool].firstLeafIndex = chain[k - 1].tree.N
    /\ \A j \in 1..Len(pools[chain[k].pool].pendingLeaves) :
           LeafAt(chain[k].tree.Hash, 1, chain[k].tree.N, chain[k - 1].tree.N + j - 1)
               = RecordHash(merkleTreeLeaf(pools[chain[k].pool].pendingLeaves[j],
                                           pools[chain[k].pool].timestamp))

C15_SthAfterAllTiles ==
    /\ seq.pc \in {"sign", "sth", "commit"} =>
           \A i \in 1..Len(seq.st.tasks) :
               /\ seq.st.tasks[i].st = "ok"
               /\ seq.st.tasks[i].path \in DOMAIN backendTiles
               /\ backendTiles[seq.st.tasks[i].path] = seq.st.tasks[i].data
    /\ (seq.pc \in {"time", "upload", "sign", "sth"}
            \/ ret \in {"time", "hash", "upload", "sign"}) => Len(sths) = pre.sths
    /\ ret = "upload" => (seq.pc = "idle" /\ lost # <<>> /\ lost[Len(lost)].p = pre.p)

C15_Witness ==
    /\ seq.pc = "sth"
    /\ Len(seq.st.tasks) >= 3


\* ---- C16 ----
\* The uploads of the round in progress that have not returned yet
RunningUploads == {i \in 1..Len(seq.st.tasks) : seq.st.tasks[i].st = "pending"}

\* C16: sequencePool never returns, with nil or with an error, while an upload
\* it scheduled in its task group is still running: every step in which the
\* call returns starts with no upload of the round pending, and a round begins
\* with no upload scheduled, so the uploads of consecutive rounds do not overlap.
C16_ReturnsAfterUploads ==
    [][/\ (seq.pc # "idle" /\ seq'.pc = "idle") => RunningUploads = {}
       /\ (seq.pc = "idle" /\ seq'.pc # "idle") => Len(seq'.st.tasks) = 0]_vars

\* The first round that scheduled uploads returned the error of one of them,
\* after the other uploads of its group had returned and stored their tiles.
C16_Witness ==
    /\ seq.pc = "idle"
    /\ ret = "upload"
    /\ Commits = {}
    /\ Cardinality(DOMAIN backendTiles) >= 2


\* ---- C17 ----
\* C17: in every state of a Log that LoadLog returned, whatever rounds have
\* run, l.edgeTiles[-1] is present iff l.tree.N > 0; when present its index is
\* floor((N-1)/tileWidth) and its width ((N-1) mod tileWidth) + 1, which are
\* the index and width of l.edgeTiles[0]; it is a full tile exactly when N is
\* a positive multiple of tileWidth.
C17_DataEdgeTile ==
    logState = "up" =>
        /\ (-1 \in DOMAIN edgeTiles) <=> (tree.N > 0)
        /\ (0 \in DOMAIN edgeTiles) <=> (tree.N > 0)
        /\ tree.N > 0 =>
               /\ edgeTiles[-1].t.L = -1
               /\ edgeTiles[-1].t.N = (tree.N - 1) \div tileWidth
               /\ edgeTiles[-1].t.W = ((tree.N - 1) % tileWidth) + 1
               /\ edgeTiles[0].t.N = edgeTiles[-1].t.N
               /\ edgeTiles[0].t.W = edgeTiles[-1].t.W
               /\ (edgeTiles[-1].t.W = tileWidth) <=> (tree.N % tileWidth = 0)

\* A Log that committed a round ending on a tile boundary and then a round
\* that began the next data tile.
C17_Witness ==
    /\ logState = "up"
    /\ seq.pc = "idle"
    /\ tree.N > tileWidth
    /\ tree.N % tileWidth # 0
    /\ \E k \in Commits : chain[k].inst = reloads /\ chain[k].tree.N = tileWidth


\* ---- C18 ----
\* The paths of the data tiles a round from size N0 to size n has to upload:
\* the full tile k-1 for every k with N0 < tileWidth*k <= n and, when n is
\* not a multiple of tileWidth, the partial tile floor(n/tileWidth) of width
\* n mod tileWidth.
ExpectedDataTiles(N0, n) ==
    {<<-1, k - 1, 0>> : k \in {j \in 1..n : N0 < tileWidth * j /\ tileWidth * j <= n}}
        \cup (IF n % tileWidth # 0
              THEN {<<-1, n \div tileWidth, n % tileWidth>>}
              ELSE {})

\* C18: the data tiles a round schedules for upload, going from size N0 to
\* size n, are exactly the tiles of ExpectedDataTiles(N0, n), each scheduled
\* once.
C18_DataTilesScheduled ==
    seq.pc \in {"upload", "sign", "sth", "commit"} =>
        /\ {seq.st.tasks[i].path : i \in DataTasks}
               = ExpectedDataTiles(pre.tree.N, seq.st.n)
        /\ Cardinality(DataTasks) = Cardinality(ExpectedDataTiles(pre.tree.N, seq.st.n))
        /\ pre.tree = tree
        /\ seq.st.n = tree.N + Len(pools[seq.p].pendingLeaves)

\* One pool of tileWidth + 1 leaves on an empty log schedules the full tile 0
\* and the partial tile 1 of width 1.
C18_Witness ==
    /\ seq.pc = "upload"
    /\ pre.tree.N = 0
    /\ seq.st.n = tileWidth + 1
    /\ {seq.st.tasks[i].path : i \in DataTasks} = {<<-1, 0, 0>>, <<-1, 1, 1>>}


\* ---- C19 ----
\* A round of the Log (lTree, lEdge) on the given leaves reads every hash it
\* asks for: while appending the leaves, while reading the new tiles and
\* while computing the new root.
RoundReads(lTree, lEdge, leaves, timestamp) ==
    LET Root(st) == ~st.err /\ ~TreeHash(st.n, lEdge, st.newHashes).err
    IN  Root(Sequence(StartTree(lTree), lEdge, leaves, timestamp))

\* In the specification of the steps of a round, no round has returned a
\* hash-read error and none has met one while scheduling its uploads.
HashReadsSucceed == ret # "hash" /\ ~seq.st.err

\* C19: the hash reader never fails during sequencing: no round returned a
\* hash-read error, and from every state of a Log, whatever its size and
\* whatever the size of the pool, the round reads every hash it asks for from
\* its overlay or from the edge tiles the Log held before the round.
C19_HashReaderNeverFails ==
    /\ ret # "hash"
    /\ ~seq.st.err
    /\ (logState = "up" /\ seq.pc = "idle") =>
           \A k \in 0..(MaxTreeSize - tree.N) :
               RoundReads(tree, edgeTiles, ReaderLeaves(k), tree.Time + 1)

\* A round grew a tree of three levels or more that LoadLog had read back,
\* across a tile boundary.
C19_Witness ==
    /\ ret = "ok"
    /\ reloads = MaxReloads + 1
    /\ pre.tree.N > 2 * tileWidth
    /\ tree.N >= pre.tree.N + tileWidth


\* ---- C20 ----
\* C20: published tiles are immutable. Once a tree of size N is committed
\* (a round committed it, or LoadLog adopted the stored checkpoint), every
\* tile of that tree keeps the bytes it had: the backend still holds them, and
\* every upload a later round schedules to such a path carries those bytes.
C20_PublishedTilesImmutable ==
    \A k \in 1..Len(chain) : \A path \in DOMAIN chain[k].tiles :
        /\ path \in DOMAIN backendTiles
        /\ backendTiles[path] = chain[k].tiles[path]
        /\ \A i \in 1..Len(seq.st.tasks) :
               seq.st.tasks[i].path = path => seq.st.tasks[i].data = chain[k].tiles[path]

\* Every tile of a committed tree was in the backend when it was committed.
CommittedTilesStored ==
    \A k \in 1..Len(chain) : DOMAIN chain[k].tiles = CoveredPaths(chain[k].tree.N)

\* A round with an empty pool has uploaded again the partial data tile of the
\* committed tree.
C20_Witness ==
    /\ seq.pc = "upload"
    /\ Len(pools[seq.p].pendingLeaves) = 0
    /\ \E i \in DataTasks : \E k \in Commits :
           /\ seq.st.tasks[i].st = "ok"
           /\ seq.st.tasks[i].path \in DOMAIN chain[k].tiles

====
